---- MODULE Spec2Model ----
(***************************************************************************)
(* The message board of src/app.py as a state machine: one browser (its    *)
(* cookie jar), the Flask application (configuration, session gate, five   *)
(* request handlers) and the SQLite store (tables topic and message).      *)
(*                                                                         *)
(* Strings are sequences of one-character strings; an optional value (a    *)
(* form field or query argument that may be missing, an unset environment  *)
(* variable, Python's None) is a record [some, val].                       *)
(*                                                                         *)
(* Flash messages are recorded in the response that raised them; their     *)
(* storage in the session between requests is the templates' business and  *)
(* never touches the 'authenticated' key the gate reads.                   *)
(***************************************************************************)
EXTENDS Integers, Sequences, FiniteSets, TLC

VARIABLES
    BOARD_PASSWORD,  \* os.getenv('BOARD_PASSWORD'), read by every login: may be unset
    now,             \* the server's clock, in seconds
    topics,          \* table topic: a set of rows [id, title]
    messages,        \* table message: a set of rows [id, content, username, topic_id, created_at]
    cookie,          \* the browser's session cookie: [present, authenticated, permanent, ts]
    kept,            \* a copy the client holds of a session cookie it was issued
    usernameCookie,  \* the browser's 'username' cookie (optional string)
    req,             \* the request handled last
    resp,            \* the response to it
    submitted,       \* history: message id -> the form fields it was posted with
    hist             \* history: when the last login succeeded; whether a logout followed it

vars == <<BOARD_PASSWORD, kept, now, topics, messages, cookie,
          usernameCookie, req, resp, submitted, hist>>

store == <<topics, messages>>

----------------------------------------------------------------------------
(* Bounds of the model *)

MaxTopics == 2
MaxMessages == 2
MaxPagedMessages == 11
MaxPageArg == 3
MaxDays == 2

(* Constants of the program *)

PERMANENT_SESSION_LIFETIME == 86400
per_page == 10
ContentMax == 300
UsernameMax == 50

----------------------------------------------------------------------------
(* Values *)

None == [some |-> FALSE, val |-> <<>>]
Some(s) == [some |-> TRUE, val |-> s]

NoInt == [some |-> FALSE, val |-> 0]
SomeInt(n) == [some |-> TRUE, val |-> n]

\* Python truthiness of an optional string: None and '' are false.
Truthy(o) == o.some /\ o.val # <<>>

Min(a, b) == IF a <= b THEN a ELSE b

\* s[:n]
Slice(s, n) == SubSeq(s, 1, Min(n, Len(s)))

\* A string of n characters whose characters vary with their position.
Str(n) == [i \in 1..n |-> IF i % 7 = 0 THEN "b" ELSE IF i % 5 = 0 THEN "c" ELSE "a"]

----------------------------------------------------------------------------
(* The store: SQLite behind SQLAlchemy *)

NoTopic == [id |-> 0, title |-> <<>>]

Ids(rows) == {r.id : r \in rows}

Max(S) == CHOOSE x \in S : \A y \in S : y <= x

\* An INTEGER PRIMARY KEY column left out of an INSERT gets the largest id of
\* the table plus one (1 in an empty table).
NextId(rows) == IF rows = {} THEN 1 ELSE Max(Ids(rows)) + 1

\* OrderByIdDesc with the order reversed.
RECURSIVE OrderByIdAsc(_)
OrderByIdAsc(rows) ==
    IF rows = {} THEN <<>>
    ELSE LET low == CHOOSE r \in rows : \A q \in rows : r.id <= q.id
         IN <<low>> \o OrderByIdAsc(rows \ {low})

\* query.order_by(id.desc()).all()
RECURSIVE OrderByIdDesc(_)
OrderByIdDesc(rows) ==
    IF rows = {} THEN <<>>
    ELSE LET top == CHOOSE r \in rows : \A q \in rows : q.id <= r.id
         IN <<top>> \o OrderByIdDesc(rows \ {top})

\* Message.query.filter_by(topic_id=topic_id)
FilterByTopic(rows, topic_id) == {m \in rows : m.topic_id = topic_id}

\* Paginate with the offset one page too far.
PaginateOffByOne(ordered, page, pp) ==
    IF page < 1 THEN [abort |-> TRUE, items |-> <<>>]
    ELSE LET items == SubSeq(ordered, page * pp + 1, Min((page + 1) * pp, Len(ordered)))
         IN IF items = <<>> /\ page # 1
            THEN [abort |-> TRUE, items |-> <<>>]
            ELSE [abort |-> FALSE, items |-> items]

\* query.paginate(page=page, per_page=per_page) with error_out left at its
\* default: a page below 1, or an empty page other than the first, aborts
\* with 404; otherwise LIMIT per_page OFFSET (page - 1) * per_page.
Paginate(ordered, page, pp) ==
    IF page < 1 THEN [abort |-> TRUE, items |-> <<>>]
    ELSE LET items == SubSeq(ordered, (page - 1) * pp + 1, Min(page * pp, Len(ordered)))
         IN IF items = <<>> /\ page # 1
            THEN [abort |-> TRUE, items |-> <<>>]
            ELSE [abort |-> FALSE, items |-> items]

\* Topic.query.get(topic_id): the row, or NoTopic
GetTopic(rows, topic_id) ==
    IF topic_id \in Ids(rows) THEN CHOOSE t \in rows : t.id = topic_id ELSE NoTopic

----------------------------------------------------------------------------
(* Sessions: Flask's signed, timestamped cookie *)

EmptySession == [authenticated |-> FALSE, permanent |-> FALSE]
AuthSession == [authenticated |-> TRUE, permanent |-> TRUE]

NoCookie == [present |-> FALSE, authenticated |-> FALSE, permanent |-> FALSE, ts |-> 0]

\* The session a request carries: none without a cookie, none when the
\* cookie's signature is older than the lifetime. (The key that signs the
\* cookie is set: without it no session can be written at all.)
open_session(c, t) ==
    IF ~c.present THEN EmptySession
    ELSE IF t - c.ts > PERMANENT_SESSION_LIFETIME THEN EmptySession
    ELSE [authenticated |-> c.authenticated, permanent |-> c.permanent]

\* The cookie the browser holds after the response: deleted when the session
\* was emptied, signed afresh when the session was modified or is permanent
\* (SESSION_REFRESH_EACH_REQUEST is left at its default), else left as it is.
save_session(c, s, modified, t) ==
    IF s = EmptySession
    THEN IF modified THEN NoCookie ELSE c
    ELSE IF modified \/ s.permanent
         THEN [present |-> TRUE, authenticated |-> s.authenticated,
               permanent |-> s.permanent, ts |-> t]
         ELSE c

\* login_required testing nothing.
login_required_open(s) == TRUE

\* if 'authenticated' not in session: redirect; here, whether the call goes through
login_required(s) == s.authenticated

----------------------------------------------------------------------------
(* Requests and responses *)

NoUrl == [route |-> "none", topic_id |-> 0, page |-> NoInt]
Url(route, topic_id, page) == [route |-> route, topic_id |-> topic_id, page |-> page]

BaseReq ==
    [route |-> "none", method |-> "GET", topic_id |-> 0, page |-> NoInt,
     title |-> None, content |-> None, username |-> None, password |-> None,
     next |-> NoUrl, authed |-> FALSE, at |-> 0]

\* request.url
UrlOf(r) == Url(r.route, r.topic_id, r.page)

NoResp == [kind |-> "none", status |-> 0]
NotFound == [kind |-> "abort", status |-> 404]

\* redirect(url_for(route, topic_id=..., next=...))
Redirect(route, topic_id, next) ==
    [kind |-> "redirect", status |-> 302, flashed |-> <<>>,
     location |-> [route |-> route, topic_id |-> topic_id, page |-> NoInt, next |-> next]]

\* redirect(next_page)
RedirectTo(u) ==
    [kind |-> "redirect", status |-> 302, flashed |-> <<>>,
     location |-> [route |-> u.route, topic_id |-> u.topic_id, page |-> u.page, next |-> NoUrl]]

\* render_template(template, ...) after the flash() calls of the request
Render(template, flashed) ==
    [kind |-> "render", status |-> 200, template |-> template, flashed |-> flashed]

RenderTopics(ts) ==
    [kind |-> "render", status |-> 200, template |-> "topics.html", flashed |-> <<>>,
     topics |-> ts]

RenderTopic(topic, items, username) ==
    [kind |-> "render", status |-> 200, template |-> "topic.html", flashed |-> <<>>,
     topic |-> topic, items |-> items, username |-> username]

Protected == {"list_topics", "view_topic", "new_topic", "add_message"}

\* The request is answered: the browser keeps the response's cookies.
Respond(r, response, s, modified) ==
    /\ req' = r
    /\ resp' = response
    /\ cookie' = save_session(cookie, s, modified, now)

\* What the decorator answers when the session is not authenticated.
Gate(r, s) ==
    /\ Respond(r, Redirect("login", 0, UrlOf(r)), s, FALSE)
    /\ UNCHANGED <<BOARD_PASSWORD, kept, now, topics, messages,
                   usernameCookie, submitted, hist>>

----------------------------------------------------------------------------
(* The handlers *)

\* GET/POST /login
login(method, password, next) ==
    LET s == open_session(cookie, now)
        r == [BaseReq EXCEPT !.route = "login", !.method = method,
                             !.password = password, !.next = next,
                             !.authed = s.authenticated, !.at = now]
    IN /\ IF method = "POST" /\ password = BOARD_PASSWORD
          THEN \* session['authenticated'] = True; session.permanent = True
               /\ Respond(r, IF next # NoUrl THEN RedirectTo(next)
                             ELSE Redirect("list_topics", 0, NoUrl),
                          AuthSession, TRUE)
               /\ hist' = [loginAt |-> now, loggedOut |-> FALSE]
          ELSE /\ Respond(r, Render("login.html",
                                    IF method = "POST" THEN <<"Invalid password">> ELSE <<>>),
                          s, FALSE)
               /\ UNCHANGED hist
       /\ UNCHANGED <<BOARD_PASSWORD, kept, now, topics, messages,
                      usernameCookie, submitted>>

\* GET /logout
logout ==
    LET s == open_session(cookie, now)
        r == [BaseReq EXCEPT !.route = "logout", !.authed = s.authenticated, !.at = now]
    IN \* session.clear()
       /\ Respond(r, Redirect("login", 0, NoUrl), EmptySession, TRUE)
       /\ hist' = [hist EXCEPT !.loggedOut = TRUE]
       /\ UNCHANGED <<BOARD_PASSWORD, kept, now, topics, messages,
                      usernameCookie, submitted>>

\* GET /
list_topics ==
    LET s == open_session(cookie, now)
        r == [BaseReq EXCEPT !.route = "list_topics", !.authed = s.authenticated, !.at = now]
    IN IF ~login_required(s) THEN Gate(r, s)
       ELSE /\ Respond(r, RenderTopics(OrderByIdDesc(topics)), s, FALSE)
            /\ UNCHANGED <<BOARD_PASSWORD, kept, now, topics, messages,
                           usernameCookie, submitted, hist>>

\* request.args.get('page', 1, type=int)
PageArg(page) == IF page.some THEN page.val ELSE 1

\* The body of view_topic: its response over a store and a username cookie.
ViewTopicResponse(ts, ms, uc, topic_id, page) ==
    LET topic == GetTopic(ts, topic_id)
        pg == Paginate(OrderByIdDesc(FilterByTopic(ms, topic_id)), PageArg(page), per_page)
    IN IF topic = NoTopic THEN NotFound
       ELSE IF pg.abort THEN NotFound
       ELSE RenderTopic(topic, pg.items, IF Truthy(uc) THEN uc.val ELSE <<>>)

\* GET /topic/<int:topic_id>
view_topic(topic_id, page) ==
    LET s == open_session(cookie, now)
        r == [BaseReq EXCEPT !.route = "view_topic", !.topic_id = topic_id,
                             !.page = page, !.authed = s.authenticated, !.at = now]
    IN IF ~login_required(s) THEN Gate(r, s)
       ELSE /\ Respond(r, ViewTopicResponse(topics, messages, usernameCookie, topic_id, page),
                       s, FALSE)
            /\ UNCHANGED <<BOARD_PASSWORD, kept, now, topics, messages,
                           usernameCookie, submitted, hist>>

\* GET/POST /topic/new
new_topic(method, title) ==
    LET s == open_session(cookie, now)
        r == [BaseReq EXCEPT !.route = "new_topic", !.method = method, !.title = title,
                             !.authed = s.authenticated, !.at = now]
        id == NextId(topics)
    IN IF ~login_required(s) THEN Gate(r, s)
       ELSE /\ IF method = "POST" /\ Truthy(title)
               THEN /\ topics' = topics \cup {[id |-> id, title |-> title.val]}
                    /\ Respond(r, Redirect("view_topic", id, NoUrl), s, FALSE)
               ELSE /\ topics' = topics
                    /\ Respond(r, Render("new_topic.html",
                                         IF method = "POST"
                                         THEN <<"Topic title cannot be empty">> ELSE <<>>),
                               s, FALSE)
            /\ UNCHANGED <<BOARD_PASSWORD, kept, now, messages,
                           usernameCookie, submitted, hist>>

\* StoredContent cutting one character late.
StoredContentLate(content) == Slice(content.val, ContentMax + 1)

\* content[:300]
StoredContent(content) == Slice(content.val, ContentMax)

\* username[:50] if username else None
StoredUsername(username) ==
    IF Truthy(username) THEN Some(Slice(username.val, UsernameMax)) ELSE None

\* POST /topic/<int:topic_id>/message
add_message(topic_id, content, username) ==
    LET s == open_session(cookie, now)
        r == [BaseReq EXCEPT !.route = "add_message", !.method = "POST",
                             !.topic_id = topic_id, !.content = content,
                             !.username = username,
                             !.authed = s.authenticated, !.at = now]
        id == NextId(messages)
    IN IF ~login_required(s) THEN Gate(r, s)
       ELSE /\ IF ~Truthy(content)
               THEN /\ Respond(r, [Redirect("view_topic", topic_id, NoUrl)
                                     EXCEPT !.flashed = <<"Message cannot be empty">>],
                               s, FALSE)
                    /\ UNCHANGED <<messages, submitted, usernameCookie>>
               ELSE \* the insert is committed whether or not the topic exists:
                    \* SQLite does not enforce the foreign key
                    /\ messages' = messages \cup
                         {[id |-> id, content |-> StoredContent(content),
                           username |-> StoredUsername(username),
                           topic_id |-> topic_id, created_at |-> now]}
                    /\ submitted' = [i \in DOMAIN submitted \cup {id} |->
                                       IF i = id
                                       THEN [content |-> content, username |-> username]
                                       ELSE submitted[i]]
                    /\ Respond(r, Redirect("view_topic", topic_id, NoUrl), s, FALSE)
                    \* response.set_cookie('username', username)
                    /\ usernameCookie' = IF Truthy(username) THEN username ELSE usernameCookie
            /\ UNCHANGED <<BOARD_PASSWORD, kept, now, topics, hist>>

\* Time passes.
Tick(d) ==
    /\ now' = now + d
    /\ UNCHANGED <<BOARD_PASSWORD, kept, topics, messages, cookie,
                   usernameCookie, req, resp, submitted, hist>>

----------------------------------------------------------------------------
(* The session lives in the cookie alone: the server keeps no record of the  *)
(* sessions it issued or ended, so whatever signed cookie a request carries *)
(* is the session of that request. The client may hold on to a cookie it    *)
(* was issued and send it again later.                                      *)

\* The client copies its session cookie.
KeepCookie ==
    /\ cookie.present
    /\ kept' = cookie
    /\ UNCHANGED <<BOARD_PASSWORD, now, topics, messages, cookie,
                   usernameCookie, req, resp, submitted, hist>>

\* The client's next requests carry the cookie it kept.
PresentKept ==
    /\ kept.present
    /\ cookie' = kept
    /\ UNCHANGED <<BOARD_PASSWORD, kept, now, topics, messages,
                   usernameCookie, req, resp, submitted, hist>>

----------------------------------------------------------------------------
(* The state after start-up: db.create_all() on an empty database, a browser *)
(* without cookies, and an environment that may or may not set the password. *)

Init ==
    /\ BOARD_PASSWORD \in {None, Some(<<"p", "w">>)}
    /\ now = 0
    /\ topics = {}
    /\ messages = {}
    /\ cookie = NoCookie
    /\ kept = NoCookie
    /\ usernameCookie = None
    /\ req = BaseReq
    /\ resp = NoResp
    /\ submitted = <<>>
    /\ hist = [loginAt |-> -1, loggedOut |-> FALSE]

\* The deployment whose environment sets the password.
InitConfigured == Init /\ BOARD_PASSWORD.some

Methods == {"GET", "POST"}
Passwords == {None, Some(<<"p", "w">>), Some(<<"p">>)}
NextArgs == {NoUrl, Url("new_topic", 0, NoInt)}
TopicIds == 1..(MaxTopics + 1)

TopicsFull == Cardinality(topics) >= MaxTopics

(* The board: gate, topics and messages with short strings *)

Titles == {None, Some(<<>>), Some(<<" ">>), Some(<<"a">>)}
Contents == {None, Some(<<>>), Some(<<"a">>)}
Usernames == {None, Some(<<"u">>)}
Pages == {NoInt, SomeInt(2)}
\* add_message is posted to the first topic and to a topic that never exists
MessageTopicIds == {1, MaxTopics + 1}

Next ==
    \/ \E m \in Methods, p \in Passwords, n \in NextArgs :
         (m = "GET" => p = None) /\ login(m, p, n)
    \/ logout
    \/ list_topics
    \/ \E t \in TopicIds, p \in Pages : view_topic(t, p)
    \/ \E m \in Methods, t \in Titles :
         (m = "GET" => t = None) /\ (Truthy(t) => ~TopicsFull) /\ new_topic(m, t)
    \/ \E t \in MessageTopicIds, c \in Contents, u \in Usernames :
         (Truthy(c) => Cardinality(messages) < MaxMessages) /\ add_message(t, c, u)

Spec == Init /\ [][Next]_vars

\* The board where the environment sets the password.
SpecConfigured == InitConfigured /\ [][Next]_vars

(* Messages: add_message over strings around the two length limits *)

RichContents ==
    {None, Some(<<>>), Some(Str(ContentMax)), Some(Str(ContentMax + 1))}
RichUsernames ==
    {None, Some(<<>>), Some(Str(UsernameMax)), Some(Str(UsernameMax + 1))}

NextMessages ==
    \/ \E p \in {None, Some(<<"p", "w">>)} : login("POST", p, NoUrl)
    \/ ~TopicsFull /\ new_topic("POST", Some(<<"a">>))
    \/ \E c \in RichContents, u \in RichUsernames :
         (Truthy(c) => Cardinality(messages) < MaxMessages) /\ add_message(1, c, u)
    \/ view_topic(1, NoInt)

SpecMessages == InitConfigured /\ [][NextMessages]_vars

(* Pages: enough messages in a topic to fill more than one page *)

PageArgs == {NoInt} \cup {SomeInt(n) : n \in 0..MaxPageArg}
PagedTopicIds == {1, 2}

NextPages ==
    \/ \E p \in {None, Some(<<"p", "w">>)} : login("POST", p, NoUrl)
    \/ NextId(topics) \in PagedTopicIds /\ new_topic("POST", Some(<<"a">>))
    \/ \E t \in PagedTopicIds :
         Cardinality(messages) < MaxPagedMessages /\ add_message(t, Some(<<"a">>), None)
    \/ \E t \in PagedTopicIds, p \in PageArgs : view_topic(t, p)

SpecPages == InitConfigured /\ [][NextPages]_vars

(* Sessions: the gate while time passes *)

Hours(n) == n * 3600
Delays == {Hours(12), Hours(12) + 60}
Horizon == MaxDays * Hours(24)

NextSession ==
    \/ \E m \in Methods, p \in Passwords :
         (m = "GET" => p = None) /\ login(m, p, NoUrl)
    \/ logout
    \/ list_topics
    \/ new_topic("GET", None)
    \/ \E d \in Delays : now + d <= Horizon /\ Tick(d)

SpecSession == InitConfigured /\ [][NextSession]_vars

(* Logout: every protected route, time, and a client that kept its cookie *)

NextLogout ==
    \/ \E p \in {Some(<<"p", "w">>), Some(<<"p">>)} : login("POST", p, NoUrl)
    \/ logout
    \/ list_topics
    \/ \E t \in {1, MaxTopics + 1} : view_topic(t, NoInt)
    \/ \E m \in Methods, t \in {None, Some(<<"a">>)} :
         (m = "GET" => t = None) /\ (Truthy(t) => ~TopicsFull) /\ new_topic(m, t)
    \/ \E c \in {None, Some(<<"a">>)} :
         (Truthy(c) => Cardinality(messages) < MaxMessages) /\ add_message(1, c, None)
    \/ now + Hours(12) <= Horizon /\ Tick(Hours(12))
    \/ KeepCookie
    \/ PresentKept

SpecLogout == InitConfigured /\ [][NextLogout]_vars

----------------------------------------------------------------------------
(* Properties *)

GateRedirect(r) == Redirect("login", 0, UrlOf(r))

\* C1: a protected request that carries no authenticated session is answered
\* with a redirect to login whose next is the requested URL, whatever the
\* store holds, and leaves topics and messages as they were.
C1_GateRedirectsAndKeepsStore ==
    [][ (req'.route \in Protected /\ ~req'.authed)
          => (resp' = GateRedirect(req') /\ topics' = topics /\ messages' = messages) ]_vars

\* An unauthenticated view of a topic id that names no topic, over a store
\* that holds topics and messages, was redirected to login.
C1_Witness ==
    /\ req.route = "view_topic" /\ ~req.authed
    /\ topics # {} /\ messages # {}
    /\ req.topic_id \notin Ids(topics)
    /\ resp.kind = "redirect" /\ resp.location.route = "login"
    /\ resp.location.next = UrlOf(req)

\* C2: a login POST whose password is missing or differs from the shared
\* secret, from an unauthenticated browser, leaves the browser unauthenticated
\* and answers with the login form and 'Invalid password'.
C2_BadPasswordNeverAuthenticates ==
    [][ (/\ req'.route = "login" /\ req'.method = "POST" /\ ~req'.authed
         /\ (~req'.password.some \/ req'.password # BOARD_PASSWORD))
          => (/\ ~open_session(cookie', now').authenticated
              /\ resp' = Render("login.html", <<"Invalid password">>)) ]_vars

\* C3: once logout has been handled for a session, every later protected
\* request presenting that session is redirected to login until a login
\* succeeds, whatever lifetime the session had left.
C3_LogoutInvalidates ==
    (hist.loggedOut /\ req.route \in Protected) => resp = GateRedirect(req)

\* C4: a session established by a login at time T (and not logged out) lets
\* protected requests through before T + 24h and has them redirected after
\* T + 24h, whatever requests were made with it in between.
C4_FixedLifetime ==
    (req.route \in Protected /\ hist.loginAt >= 0 /\ ~hist.loggedOut)
      => /\ (req.at < hist.loginAt + PERMANENT_SESSION_LIFETIME => resp # GateRedirect(req))
         /\ (req.at > hist.loginAt + PERMANENT_SESSION_LIFETIME => resp = GateRedirect(req))

\* C5: every stored message's topic_id is the id of a stored topic.
C5_ReferentialIntegrity ==
    \A m \in messages : m.topic_id \in Ids(topics)

LastPage(n) == IF n = 0 THEN 1 ELSE (n + per_page - 1) \div per_page

\* C6: an authenticated view of an existing topic at a page beyond the last
\* one renders the topic with an empty page of messages.
C6_PageBeyondLastIsEmpty ==
    (/\ req.route = "view_topic" /\ req.authed
     /\ req.topic_id \in Ids(topics)
     /\ req.page.some
     /\ req.page.val > LastPage(Cardinality(FilterByTopic(messages, req.topic_id))))
      => (/\ resp.kind = "render"
          /\ resp.topic.id = req.topic_id
          /\ resp.items = <<>>)

\* str.strip() leaves nothing: the title is missing, empty or all blanks.
IsBlank(o) == ~o.some \/ \A i \in 1..Len(o.val) : o.val[i] = " "

\* C7: an authenticated POST /topic/new whose title is empty after trimming
\* creates no topic and answers with the form and the validation message.
C7_BlankTitleCreatesNoTopic ==
    [][ (/\ req'.route = "new_topic" /\ req'.method = "POST" /\ req'.authed
         /\ IsBlank(req'.title))
          => (/\ topics' = topics
              /\ resp' = Render("new_topic.html", <<"Topic title cannot be empty">>)) ]_vars

\* listing holds every row of rows once, in strictly descending id order.
IsListingOf(listing, rows) ==
    /\ Len(listing) = Cardinality(rows)
    /\ {listing[i] : i \in 1..Len(listing)} = rows
    /\ \A i \in 1..(Len(listing) - 1) : listing[i].id > listing[i + 1].id

\* C8: a successful create_topic assigns an id above every id assigned before;
\* the topic is at once retrievable by view_topic; list_topics returns every
\* stored topic once, in strictly descending id order, the new topic first.
C8_NewTopicIsNewestAndFirst ==
    [][ /\ (req'.route = "new_topic" /\ resp'.kind = "redirect")
           => (resp'.location.route = "view_topic"
               => LET id == resp'.location.topic_id
                      view == ViewTopicResponse(topics', messages', usernameCookie', id, NoInt)
                      listing == RenderTopics(OrderByIdDesc(topics')).topics
                  IN /\ \A t \in topics : id > t.id
                     /\ view.kind = "render" /\ view.topic \in topics' /\ view.topic.id = id
                     /\ IsListingOf(listing, topics')
                     /\ listing[1].id = id)
        /\ (req'.route = "list_topics" /\ resp'.kind = "render")
           => IsListingOf(resp'.topics, topics') ]_vars

\* A second topic was created, above the first.
C8_Witness ==
    /\ req.route = "new_topic" /\ resp.kind = "redirect"
    /\ resp.location.route = "view_topic"
    /\ resp.location.topic_id = 2
    /\ Cardinality(topics) = 2

\* C9: an authenticated view of an existing topic with n messages at a page p,
\* 1 <= p <= ceil(n / 10) (p = 1 when the page is omitted), renders exactly
\* the messages of that topic ranked (p - 1) * 10 + 1 .. min(p * 10, n) by
\* descending id.
C9_PageHoldsItsRanks ==
    (req.route = "view_topic" /\ req.authed /\ req.topic_id \in Ids(topics))
      => LET mine == {m \in messages : m.topic_id = req.topic_id}
             n == Cardinality(mine)
             p == IF req.page.some THEN req.page.val ELSE 1
             Rank(m) == Cardinality({q \in mine : q.id >= m.id})
         IN (1 <= p /\ p * 10 < n + 10)
              => /\ resp.kind = "render"
                 /\ resp.topic.id = req.topic_id
                 /\ Len(resp.items) = Min(p * 10, n) - (p - 1) * 10
                 /\ \A i \in 1..Len(resp.items) :
                      /\ resp.items[i] \in mine
                      /\ Rank(resp.items[i]) = (p - 1) * 10 + i

\* The second page of a topic with eleven messages held the oldest one.
C9_Witness ==
    /\ req.route = "view_topic" /\ req.authed
    /\ req.page = SomeInt(2)
    /\ resp.kind = "render"
    /\ Len(resp.items) = 1
    /\ \A m \in messages : m.topic_id = req.topic_id => resp.items[1].id <= m.id

\* s is the first n characters of full (all of it when it is shorter).
IsPrefixUpTo(s, full, n) ==
    /\ Len(s) = Min(n, Len(full))
    /\ \A i \in 1..Len(s) : s[i] = full[i]

\* C10: every stored message has a non-empty content of at most 300
\* characters, the first 300 of the content submitted, and a username that is
\* absent or the non-empty first 50 characters of the one submitted; an
\* add_message without content stores nothing.
C10_StoredMessages ==
    [][ /\ \A m \in messages' :
             LET sub == submitted'[m.id]
             IN /\ m.content # <<>>
                /\ Len(m.content) <= 300
                /\ sub.content.some
                /\ IsPrefixUpTo(m.content, sub.content.val, 300)
                /\ m.username.some
                     => /\ m.username.val # <<>>
                        /\ sub.username.some
                        /\ IsPrefixUpTo(m.username.val, sub.username.val, 50)
        /\ (req'.route = "add_message" /\ ~Truthy(req'.content))
             => (topics' = topics /\ messages' = messages) ]_vars

\* A message posted with 301 characters of content and 51 of username is
\* stored with 300 and 50.
C10_Witness ==
    \E m \in messages :
        /\ Len(submitted[m.id].content.val) = 301
        /\ Len(m.content) = 300
        /\ Len(submitted[m.id].username.val) = 51
        /\ m.username.some /\ Len(m.username.val) = 50

====
